---- MODULE Spec2Model ----
(***************************************************************************)
(* Model of tools/ci_connector_ops/ci_connector_ops/utils.py: the          *)
(* Connector value class (identity, metadata, language, version and the    *)
(* metadata projections) and the three functions that list connectors      *)
(* (changed acceptance test configs, changed connectors, released          *)
(* connectors).                                                            *)
(*                                                                         *)
(* A Python str is a tuple of one-character strings, so that split,        *)
(* startswith, endswith, "in", strip and replace are computed character by *)
(* character as the code computes them.  A Python value is a record tagged *)
(* with its type (t) and carrying its content (v).  The outcome of an      *)
(* operation is either a returned value or a raised exception.             *)
(*                                                                         *)
(* The state is the environment the code reads (the files on disk and the  *)
(* list of files git reports as changed), the Connector under query, and   *)
(* the last operation with its outcome.  The code never writes to the      *)
(* environment.                                                            *)
(***************************************************************************)
EXTENDS Naturals, Sequences, FiniteSets, TLC

VARIABLES
    connector,      \* the Connector instance the properties are read on
    fs,             \* files on disk: normalized relative path -> content
    changed_files,  \* the paths `git diff --name-only DIFFED_BRANCH` reports
    op,             \* the last function or property evaluated
    result          \* its outcome

vars == <<connector, fs, changed_files, op, result>>

----------------------------------------------------------------------------
(* Bounds of the model *)

MaxNameLen == 3
MaxDockerfileLines == 2
MaxDiffLines == 2

----------------------------------------------------------------------------
(* Module constants, utils.py lines 30-46 *)

CONNECTOR_PATH_PREFIX == <<"a","i","r","b","y","t","e","-","i","n","t","e","g","r","a","t","i","o","n","s","/","c","o","n","n","e","c","t","o","r","s">>
SOURCE_CONNECTOR_PATH_PREFIX == CONNECTOR_PATH_PREFIX \o <<"/","s","o","u","r","c","e","-">>
ACCEPTANCE_TEST_CONFIG_FILE_NAME == <<"a","c","c","e","p","t","a","n","c","e","-","t","e","s","t","-","c","o","n","f","i","g",".","y","m","l">>
METADATA_FILE_NAME == <<"m","e","t","a","d","a","t","a",".","y","a","m","l">>

----------------------------------------------------------------------------
(* Python values and outcomes *)

PyNone == [t |-> "None"]
PyStr(s) == [t |-> "str", v |-> s]
PyBool(b) == [t |-> "bool", v |-> b]
PyDict(m) == [t |-> "dict", v |-> m]
PyList(l) == [t |-> "list", v |-> l]
PyTuple(l) == [t |-> "tuple", v |-> l]
PySet(S) == [t |-> "set", v |-> S]
PyPath(p) == [t |-> "Path", v |-> p]

Return(v) == [kind |-> "return", value |-> v, exc |-> "none"]
Raise(e) == [kind |-> "raise", value |-> PyNone, exc |-> e]

\* bool(x): None, the empty str, the empty dict, the empty list and False are falsy.
Truthy(x) ==
    CASE x.t = "None" -> FALSE
      [] x.t = "bool" -> x.v
      [] x.t = "dict" -> DOMAIN x.v # {}
      [] x.t = "str" -> Len(x.v) > 0
      [] x.t = "list" -> Len(x.v) > 0
      [] OTHER -> TRUE

\* d[k]: KeyError when the key is missing, TypeError when d is None.
Subscript(d, k) ==
    IF d.t # "dict" THEN Raise("TypeError")
    ELSE IF k \in DOMAIN d.v THEN Return(d.v[k])
    ELSE Raise("KeyError")

\* d.get(k)
Get(d, k) == IF k \in DOMAIN d.v THEN d.v[k] ELSE PyNone

\* f"{x}": str(x)
Format(x) == IF x.t = "None" THEN <<"N","o","n","e">> ELSE x.v

----------------------------------------------------------------------------
(* Python str methods, on tuples of characters *)

Min(S) == CHOOSE x \in S : \A y \in S : x <= y
Max(S) == CHOOSE x \in S : \A y \in S : y <= x

\* s.startswith(p)
startswith(s, p) == Len(p) <= Len(s) /\ SubSeq(s, 1, Len(p)) = p

\* s.endswith(x)
endswith(s, x) == Len(x) <= Len(s) /\ SubSeq(s, Len(s) - Len(x) + 1, Len(s)) = x

\* x in s
contains(s, x) ==
    \E i \in 1..(Len(s) + 1) :
        i + Len(x) - 1 <= Len(s) /\ SubSeq(s, i, i + Len(x) - 1) = x

\* s.split(sep), sep one character: always at least one piece
RECURSIVE split(_, _)
split(s, sep) ==
    IF \A i \in 1..Len(s) : s[i] # sep THEN <<s>>
    ELSE LET i == Min({k \in 1..Len(s) : s[k] = sep})
         IN <<SubSeq(s, 1, i - 1)>> \o split(SubSeq(s, i + 1, Len(s)), sep)

\* sep.join(parts)
RECURSIVE join(_, _)
join(parts, sep) ==
    IF Len(parts) = 0 THEN <<>>
    ELSE IF Len(parts) = 1 THEN parts[1]
    ELSE parts[1] \o sep \o join(Tail(parts), sep)

\* s.replace(old, new), old and new one character: every occurrence
replace(s, old, new) == [i \in 1..Len(s) |-> IF s[i] = old THEN new ELSE s[i]]

Whitespace == {" ", "\t", "\n", "\r"}

\* s.strip()
strip(s) ==
    LET keep == {i \in 1..Len(s) : s[i] \notin Whitespace}
    IN IF keep = {} THEN <<>> ELSE SubSeq(s, Min(keep), Max(keep))

\* for line in f: the lines of a text file, each with its line terminator
RECURSIVE readlines(_)
readlines(text) ==
    IF Len(text) = 0 THEN <<>>
    ELSE IF \A i \in 1..Len(text) : text[i] # "\n" THEN <<text>>
    ELSE LET i == Min({k \in 1..Len(text) : text[k] = "\n"})
         IN <<SubSeq(text, 1, i)>> \o readlines(SubSeq(text, i + 1, Len(text)))

----------------------------------------------------------------------------
(* pathlib.Path on relative paths, and the files on disk *)

\* Path(s): empty and "." components are dropped
PathOf(s) ==
    join(SelectSeq(split(s, "/"), LAMBDA c : Len(c) > 0 /\ c # <<".">>), <<"/">>)

\* p / segment (segment relative)
PathJoin(p, segment) == PathOf(p \o <<"/">> \o segment)

\* Path(p).parent.name
parent_name(p) ==
    LET parts == split(PathOf(p), "/")
    IN IF Len(parts) >= 2 THEN parts[Len(parts) - 1] ELSE <<>>

\* Path(p).is_file()
is_file(p) == PathOf(p) \in DOMAIN fs

YamlFile(doc) == [kind |-> "yaml", doc |-> doc, text |-> <<>>]
TextFile(text) == [kind |-> "text", doc |-> PyNone, text |-> text]

----------------------------------------------------------------------------
(* class ConnectorLanguage(str, Enum) *)

ConnectorLanguage ==
    [PYTHON |-> [t |-> "ConnectorLanguage", v |-> "python"],
     JAVA |-> [t |-> "ConnectorLanguage", v |-> "java"],
     LOW_CODE |-> [t |-> "ConnectorLanguage", v |-> "low-code"]]

(* @dataclass(frozen=True) class Connector: equality and hash by technical_name *)
Connector(technical_name) == [t |-> "Connector", technical_name |-> technical_name]

NoTypeAndName(self) ==
    Return(PyTuple(<<PyStr(self.technical_name), PyStr(<<>>)>>))

SecondSegmentAsName(self) ==
    IF \A i \in 1..Len(self.technical_name) : self.technical_name[i] # "-"
    THEN Raise("ConnectorInvalidNameError")
    ELSE LET parts == split(self.technical_name, "-")
         IN Return(PyTuple(<<PyStr(parts[1]), PyStr(parts[2])>>))

get_type_and_name_from_technical_name(self) ==
    IF ~contains(self.technical_name, <<"-">>)
    THEN Raise("ConnectorInvalidNameError")
    ELSE LET type == split(self.technical_name, "-")[1]
             nm == SubSeq(self.technical_name, Len(type) + 2, Len(self.technical_name))
         IN Return(PyTuple(<<PyStr(type), PyStr(nm)>>))

name(self) ==
    LET r == get_type_and_name_from_technical_name(self)
    IN IF r.kind = "raise" THEN r ELSE Return(r.value.v[2])

connector_type(self) ==
    LET r == get_type_and_name_from_technical_name(self)
    IN IF r.kind = "raise" THEN r ELSE Return(r.value.v[1])

documentation_file_path(self) ==
    LET ty == connector_type(self)
        nm == name(self)
    IN IF ty.kind = "raise" THEN ty
       ELSE IF nm.kind = "raise" THEN nm
       ELSE Return(PyPath(PathOf(<<".","/","d","o","c","s","/","i","n","t","e","g","r","a","t","i","o","n","s","/">> \o ty.value.v \o <<"s","/">>
                                 \o nm.value.v \o <<".","m","d">>)))

code_directory(self) ==
    PathOf(<<".","/","a","i","r","b","y","t","e","-","i","n","t","e","g","r","a","t","i","o","n","s","/","c","o","n","n","e","c","t","o","r","s","/">> \o self.technical_name)

metadata(self) ==
    LET file_path == PathJoin(code_directory(self), METADATA_FILE_NAME)
    IN IF ~is_file(file_path) THEN Return(PyNone)
       ELSE Subscript(fs[PathOf(file_path)].doc, "data")

icon_path(self) ==
    LET m == metadata(self)
    IN IF m.kind = "raise" THEN m
       ELSE IF Truthy(m.value) /\ Truthy(Get(m.value, "icon"))
       THEN LET icon == Subscript(m.value, "icon")
            IN IF icon.kind = "raise" THEN icon
               ELSE Return(PyPath(PathOf(
                        <<".","/","a","i","r","b","y","t","e","-","c","o","n","f","i","g","-","o","s","s","/","i","n","i","t","-","o","s","s","/","s","r","c","/","m","a","i","n","/","r","e","s","o","u","r","c","e","s","/","i","c","o","n","s","/">>
                        \o Format(icon.value))))
       ELSE LET nm == name(self)
            IN IF nm.kind = "raise" THEN nm
               ELSE Return(PyPath(PathOf(
                        <<".","/","a","i","r","b","y","t","e","-","c","o","n","f","i","g","-","o","s","s","/","i","n","i","t","-","o","s","s","/","s","r","c","/","m","a","i","n","/","r","e","s","o","u","r","c","e","s","/","i","c","o","n","s","/">>
                        \o nm.value.v \o <<".","s","v","g">>)))

LanguageSetupFirst(self) ==
    IF is_file(PathJoin(code_directory(self), <<"s","e","t","u","p",".","p","y">>))
    THEN Return(ConnectorLanguage.PYTHON)
    ELSE IF is_file(PathJoin(PathJoin(code_directory(self),
                                      replace(self.technical_name, "-", "_")),
                             <<"m","a","n","i","f","e","s","t",".","y","a","m","l">>))
    THEN Return(ConnectorLanguage.LOW_CODE)
    ELSE LET dockerfile == PathJoin(code_directory(self), <<"D","o","c","k","e","r","f","i","l","e">>)
         IN IF is_file(dockerfile)
               /\ contains(fs[dockerfile].text, <<"F","R","O","M"," ","a","i","r","b","y","t","e","/","i","n","t","e","g","r","a","t","i","o","n","-","b","a","s","e","-","j","a","v","a">>)
            THEN Return(ConnectorLanguage.JAVA)
            ELSE Return(PyNone)

language(self) ==
    IF is_file(PathJoin(PathJoin(code_directory(self),
                                 replace(self.technical_name, "-", "_")),
                        <<"m","a","n","i","f","e","s","t",".","y","a","m","l">>))
    THEN Return(ConnectorLanguage.LOW_CODE)
    ELSE IF is_file(PathJoin(code_directory(self), <<"s","e","t","u","p",".","p","y">>))
    THEN Return(ConnectorLanguage.PYTHON)
    ELSE LET dockerfile == PathJoin(code_directory(self), <<"D","o","c","k","e","r","f","i","l","e">>)
         IN IF is_file(dockerfile)
               /\ contains(fs[dockerfile].text, <<"F","R","O","M"," ","a","i","r","b","y","t","e","/","i","n","t","e","g","r","a","t","i","o","n","-","b","a","s","e","-","j","a","v","a">>)
            THEN Return(ConnectorLanguage.JAVA)
            ELSE Return(PyNone)

version_in_dockerfile_label(self) ==
    LET dockerfile == PathJoin(code_directory(self), <<"D","o","c","k","e","r","f","i","l","e">>)
    IN IF ~is_file(dockerfile) THEN Raise("FileNotFoundError")
       ELSE LET lines == readlines(fs[dockerfile].text)
                hits == {i \in 1..Len(lines) : contains(lines[i], <<"i","o",".","a","i","r","b","y","t","e",".","v","e","r","s","i","o","n">>)}
            IN IF hits = {}
               THEN Raise("ConnectorVersionNotFound")
               ELSE LET parts == split(lines[Min(hits)], "=")
                    IN IF Len(parts) < 2 THEN Raise("IndexError")
                       ELSE Return(PyStr(strip(parts[2])))

VersionLabelFirst(self) ==
    LET label == version_in_dockerfile_label(self)
        m == metadata(self)
    IN IF label.kind = "return" THEN label
       ELSE IF m.kind = "raise" THEN m
       ELSE IF m.value.t = "None" THEN label
       ELSE Subscript(m.value, "dockerImageTag")

version(self) ==
    LET m == metadata(self)
    IN IF m.kind = "raise" THEN m
       ELSE IF m.value.t = "None" THEN version_in_dockerfile_label(self)
       ELSE Subscript(m.value, "dockerImageTag")

\* self.metadata.get(key) if self.metadata else None
MetadataGet(self, key) ==
    LET m == metadata(self)
    IN IF m.kind = "raise" THEN m
       ELSE IF Truthy(m.value) THEN Return(Get(m.value, key))
       ELSE Return(PyNone)

release_stage(self) == MetadataGet(self, "releaseStage")

allowed_hosts(self) == MetadataGet(self, "allowedHosts")

suggested_streams(self) == MetadataGet(self, "suggestedStreams")

\* self.metadata and self.metadata.get("normalizationConfig") is not None:
\* a falsy metadata (None or the empty mapping) is itself the value returned.
supports_normalization(self) ==
    LET m == metadata(self)
    IN IF m.kind = "raise" THEN m
       ELSE IF ~Truthy(m.value) THEN Return(m.value)
       ELSE Return(PyBool(Get(m.value, "normalizationConfig").t # "None"))

\* f"{self.metadata['normalizationConfig'][key]}" if self.supports_normalization
NormalizationField(self, key) ==
    LET s == supports_normalization(self)
    IN IF s.kind = "raise" THEN s
       ELSE IF ~Truthy(s.value) THEN Return(PyNone)
       ELSE LET config == Subscript(metadata(self).value, "normalizationConfig")
            IN IF config.kind = "raise" THEN config
               ELSE LET field == Subscript(config.value, key)
                    IN IF field.kind = "raise" THEN field
                       ELSE Return(PyStr(Format(field.value)))

normalization_repository(self) == NormalizationField(self, "normalizationRepository")

normalization_tag(self) == NormalizationField(self, "normalizationTag")

----------------------------------------------------------------------------
(* Module-level functions *)

\* airbyte_repo.git.diff("--name-only", ...): one changed path per line, the
\* trailing newline stripped; changed_files is what git reports for the
\* arguments of the call (with or without -G<diff_regex>).
git_diff == join(changed_files, <<"\n">>)

get_connector_name_from_path(path) ==
    LET parts == split(path, "/")
    IN IF Len(parts) < 3 THEN Raise("IndexError") ELSE Return(PyStr(parts[3]))

\* {Connector(get_connector_name_from_path(f)) for f in paths}
ConnectorsOfPaths(paths) ==
    LET names == {get_connector_name_from_path(p) : p \in paths}
    IN IF \E n \in names : n.kind = "raise"
       THEN CHOOSE n \in names : n.kind = "raise"
       ELSE Return(PySet({Connector(n.value.v) : n \in names}))

ChangedAcceptanceConfigPrefixOnly ==
    LET lines == split(git_diff, "\n")
    IN ConnectorsOfPaths({lines[i] : i \in
           {j \in 1..Len(lines) : startswith(lines[j], SOURCE_CONNECTOR_PATH_PREFIX)}})

get_changed_acceptance_test_config ==
    LET lines == split(git_diff, "\n")
        changed_acceptance_test_config_paths ==
            {lines[i] : i \in
                {j \in 1..Len(lines) :
                    /\ startswith(lines[j], SOURCE_CONNECTOR_PATH_PREFIX)
                    /\ endswith(lines[j], ACCEPTANCE_TEST_CONFIG_FILE_NAME)}}
    IN ConnectorsOfPaths(changed_acceptance_test_config_paths)

ChangedConnectorsResolvingMetadata ==
    LET lines == split(git_diff, "\n")
        found == ConnectorsOfPaths({lines[i] : i \in
                    {j \in 1..Len(lines) :
                        startswith(lines[j], SOURCE_CONNECTOR_PATH_PREFIX)}})
    IN IF found.kind = "raise" THEN found
       ELSE IF \E c \in found.value.v : version(c).kind = "raise"
       THEN version(CHOOSE c \in found.value.v : version(c).kind = "raise")
       ELSE found

get_changed_connectors ==
    LET lines == split(git_diff, "\n")
        changed_source_connector_files ==
            {lines[i] : i \in
                {j \in 1..Len(lines) :
                    startswith(lines[j], SOURCE_CONNECTOR_PATH_PREFIX)}}
    IN ConnectorsOfPaths(changed_source_connector_files)

\* glob("airbyte-integrations/connectors/**/metadata.yaml", recursive=True):
\* "**" spans zero or more directories, none of them hidden.
glob_metadata_files ==
    {p \in DOMAIN fs :
        LET parts == split(p, "/")
        IN /\ Len(parts) >= 3
           /\ join(<<parts[1], parts[2]>>, <<"/">>) = CONNECTOR_PATH_PREFIX
           /\ parts[Len(parts)] = METADATA_FILE_NAME
           /\ \A i \in 3..(Len(parts) - 1) : parts[i][1] # "."}

ReleasedWithScaffolds ==
    Return(PySet({Connector(parent_name(metadata_file)) :
                    metadata_file \in glob_metadata_files}))

get_all_released_connectors ==
    Return(PySet({Connector(parent_name(metadata_file)) :
                    metadata_file \in {f \in glob_metadata_files :
                                          ~contains(f, <<"-","s","c","a","f","f","o","l","d","-">>)}}))

----------------------------------------------------------------------------
(* Actions: one per property read or function call.  Each evaluates the    *)
(* code on the current environment and records the outcome; the            *)
(* environment is only read.                                               *)

environment == <<connector, fs, changed_files>>

GetTypeAndName ==
    /\ op' = "_get_type_and_name_from_technical_name"
    /\ result' = get_type_and_name_from_technical_name(connector)
    /\ UNCHANGED environment

Name ==
    /\ op' = "name"
    /\ result' = name(connector)
    /\ UNCHANGED environment

ConnectorType ==
    /\ op' = "connector_type"
    /\ result' = connector_type(connector)
    /\ UNCHANGED environment

DocumentationFilePath ==
    /\ op' = "documentation_file_path"
    /\ result' = documentation_file_path(connector)
    /\ UNCHANGED environment

IconPath ==
    /\ op' = "icon_path"
    /\ result' = icon_path(connector)
    /\ UNCHANGED environment

CodeDirectory ==
    /\ op' = "code_directory"
    /\ result' = Return(PyPath(code_directory(connector)))
    /\ UNCHANGED environment

Metadata ==
    /\ op' = "metadata"
    /\ result' = metadata(connector)
    /\ UNCHANGED environment

Language ==
    /\ op' = "language"
    /\ result' = language(connector)
    /\ UNCHANGED environment

Version ==
    /\ op' = "version"
    /\ result' = version(connector)
    /\ UNCHANGED environment

VersionInDockerfileLabel ==
    /\ op' = "version_in_dockerfile_label"
    /\ result' = version_in_dockerfile_label(connector)
    /\ UNCHANGED environment

ReleaseStage ==
    /\ op' = "release_stage"
    /\ result' = release_stage(connector)
    /\ UNCHANGED environment

AllowedHosts ==
    /\ op' = "allowed_hosts"
    /\ result' = allowed_hosts(connector)
    /\ UNCHANGED environment

SuggestedStreams ==
    /\ op' = "suggested_streams"
    /\ result' = suggested_streams(connector)
    /\ UNCHANGED environment

SupportsNormalization ==
    /\ op' = "supports_normalization"
    /\ result' = supports_normalization(connector)
    /\ UNCHANGED environment

NormalizationRepository ==
    /\ op' = "normalization_repository"
    /\ result' = normalization_repository(connector)
    /\ UNCHANGED environment

NormalizationTag ==
    /\ op' = "normalization_tag"
    /\ result' = normalization_tag(connector)
    /\ UNCHANGED environment

GetChangedAcceptanceTestConfig ==
    /\ op' = "get_changed_acceptance_test_config"
    /\ result' = get_changed_acceptance_test_config
    /\ UNCHANGED environment

GetChangedConnectors ==
    /\ op' = "get_changed_connectors"
    /\ result' = get_changed_connectors
    /\ UNCHANGED environment

GetAllReleasedConnectors ==
    /\ op' = "get_all_released_connectors"
    /\ result' = get_all_released_connectors
    /\ UNCHANGED environment

Next ==
    \/ GetTypeAndName
    \/ Name
    \/ ConnectorType
    \/ DocumentationFilePath
    \/ IconPath
    \/ CodeDirectory
    \/ Metadata
    \/ Language
    \/ Version
    \/ VersionInDockerfileLabel
    \/ ReleaseStage
    \/ AllowedHosts
    \/ SuggestedStreams
    \/ SupportsNormalization
    \/ NormalizationRepository
    \/ NormalizationTag
    \/ GetChangedAcceptanceTestConfig
    \/ GetChangedConnectors
    \/ GetAllReleasedConnectors

----------------------------------------------------------------------------
(* Environments *)

\* All strings over alphabet A of length at most n
Strings(A, n) == UNION {[1..k -> A] : k \in 0..n}

EmptyMap == [k \in {} |-> PyNone]

\* The mappings that give some of the keys of choices a value among its choices
DictsOver(choices) ==
    {PyDict(f) : f \in UNION {
        {g \in [K -> UNION {choices[k] : k \in K}] : \A k \in K : g[k] \in choices[k]} :
            K \in SUBSET DOMAIN choices}}

\* The files on disk, from a set of <<path, content>> pairs; the file system
\* knows a file by its normalized path
Files(pairs) ==
    [p \in {PathOf(x[1]) : x \in pairs} |-> (CHOOSE x \in pairs : PathOf(x[1]) = p)[2]]

ConnectorsRoot == <<"a","i","r","b","y","t","e","-","i","n","t","e","g","r","a","t","i","o","n","s","/","c","o","n","n","e","c","t","o","r","s","/">>

\* A metadata.yaml without the data key, with a null data, or with data d
NoDataDoc == PyDict(EmptyMap)
DataDoc(d) == PyDict([data |-> d])

\* The states of the metadata.yaml of connector n: absent, or one of docs
MetadataStates(n, docs) ==
    {{}} \cup {{<<ConnectorsRoot \o n \o <<"/","m","e","t","a","d","a","t","a",".","y","a","m","l">>, YamlFile(d)>>} : d \in docs}

DockerLines ==
    {<<"F","R","O","M"," ","a","i","r","b","y","t","e","/","i","n","t","e","g","r","a","t","i","o","n","-","b","a","s","e","-","j","a","v","a",":","d","e","v">>,
     <<"E","N","V"," ","A","=","b">>,
     <<"L","A","B","E","L"," ","i","o",".","a","i","r","b","y","t","e",".","v","e","r","s","i","o","n","=","1",".","2",".","3"," ">>,
     <<"L","A","B","E","L"," ","i","o",".","a","i","r","b","y","t","e",".","v","e","r","s","i","o","n","=","1",".","2","=","3">>,
     <<"#"," ","i","o",".","a","i","r","b","y","t","e",".","v","e","r","s","i","o","n"," ","l","a","b","e","l">>}

\* The text of a Dockerfile holding the given lines
RECURSIVE DockerText(_)
DockerText(lines) ==
    IF Len(lines) = 0 THEN <<>>
    ELSE lines[1] \o <<"\n">> \o DockerText(Tail(lines))

\* The states of the Dockerfile of connector n: absent, or up to
\* MaxDockerfileLines lines
DockerfileStates(n) ==
    {{}} \cup {{<<ConnectorsRoot \o n \o <<"/","D","o","c","k","e","r","f","i","l","e">>, TextFile(DockerText(ls))>>} :
                ls \in Strings(DockerLines, MaxDockerfileLines)}

Idle == op = "none" /\ result = Return(PyNone)

(* Identity: every technical name over a small alphabet, and the names of  *)
(* the documented scenarios, with the metadata states icon_path reads.     *)
NameAlphabet == {"-", "a", "b"}
ScenarioNames ==
    {<<"s","o","u","r","c","e","-","s","3">>, <<"d","e","s","t","i","n","a","t","i","o","n","-","b","i","g","q","u","e","r","y","-","d","e","n","o","r","m","a","l","i","z","e","d">>, <<"s","o","u","r","c","e","f","o","o">>}
IdentityDocs ==
    {NoDataDoc, DataDoc(PyNone)}
    \cup {DataDoc(d) : d \in DictsOver([icon |-> {PyStr(<<>>), PyStr(<<"f","o","o",".","s","v","g">>)}])}

InitIdentity ==
    /\ \E n \in Strings(NameAlphabet, MaxNameLen) \cup ScenarioNames :
          /\ connector = Connector(n)
          /\ \E md \in MetadataStates(n, IdentityDocs) : fs = Files(md)
    /\ changed_files = <<>>
    /\ Idle

SpecIdentity == InitIdentity /\ [][Next]_vars

(* Version: connector source-foo with every combination of a metadata      *)
(* state and a Dockerfile state.                                           *)
SourceFoo == <<"s","o","u","r","c","e","-","f","o","o">>
VersionDocs ==
    {NoDataDoc, DataDoc(PyNone)}
    \cup {DataDoc(d) : d \in DictsOver([dockerImageTag |-> {PyStr(<<"0",".","9",".","0">>)},
                                        releaseStage |-> {PyStr(<<"a","l","p","h","a">>)}])}

InitVersion ==
    /\ connector = Connector(SourceFoo)
    /\ \E md \in MetadataStates(SourceFoo, VersionDocs) :
          \E df \in DockerfileStates(SourceFoo) : fs = Files(md \cup df)
    /\ changed_files = <<>>
    /\ Idle

SpecVersion == InitVersion /\ [][Next]_vars

(* Metadata projections: connector source-foo with every combination of    *)
(* the optional keys.                                                      *)
NormalizationConfigs ==
    {PyNone} \cup DictsOver([normalizationRepository |-> {PyStr(<<"a","i","r","b","y","t","e","/","n","o","r","m","a","l","i","z","a","t","i","o","n">>)},
                             normalizationTag |-> {PyStr(<<"0",".","4",".","0">>)}])
ProjectionDocs ==
    {NoDataDoc, DataDoc(PyNone)}
    \cup {DataDoc(d) : d \in DictsOver([releaseStage |-> {PyStr(<<"a","l","p","h","a">>)},
                                        allowedHosts |-> {PyList(<<PyStr(<<"*",".","f","o","o",".","c","o","m">>)>>)},
                                        suggestedStreams |-> {PyList(<<PyStr(<<"u","s","e","r","s">>)>>)},
                                        normalizationConfig |-> NormalizationConfigs])}

InitProjections ==
    /\ connector = Connector(SourceFoo)
    /\ \E md \in MetadataStates(SourceFoo, ProjectionDocs) : fs = Files(md)
    /\ changed_files = <<>>
    /\ Idle

SpecProjections == InitProjections /\ [][Next]_vars

(* Language: connector source-foo-bar with every combination of a manifest *)
(* in the package directory, a manifest in a directory where only the      *)
(* first '-' is replaced, a setup.py and a Dockerfile state.               *)
SourceFooBar == <<"s","o","u","r","c","e","-","f","o","o","-","b","a","r">>
ManifestFile ==
    <<<<"a","i","r","b","y","t","e","-","i","n","t","e","g","r","a","t","i","o","n","s","/","c","o","n","n","e","c","t","o","r","s","/","s","o","u","r","c","e","-","f","o","o","-","b","a","r","/","s","o","u","r","c","e","_","f","o","o","_","b","a","r","/","m","a","n","i","f","e","s","t",".","y","a","m","l">>,
      YamlFile(PyDict(EmptyMap))>>
StrayManifestFile ==
    <<<<"a","i","r","b","y","t","e","-","i","n","t","e","g","r","a","t","i","o","n","s","/","c","o","n","n","e","c","t","o","r","s","/","s","o","u","r","c","e","-","f","o","o","-","b","a","r","/","s","o","u","r","c","e","_","f","o","o","-","b","a","r","/","m","a","n","i","f","e","s","t",".","y","a","m","l">>,
      YamlFile(PyDict(EmptyMap))>>
SetupPyFile ==
    <<<<"a","i","r","b","y","t","e","-","i","n","t","e","g","r","a","t","i","o","n","s","/","c","o","n","n","e","c","t","o","r","s","/","s","o","u","r","c","e","-","f","o","o","-","b","a","r","/","s","e","t","u","p",".","p","y">>, TextFile(<<>>)>>

InitLanguage ==
    /\ connector = Connector(SourceFooBar)
    /\ \E some \in SUBSET {ManifestFile, StrayManifestFile, SetupPyFile} :
          \E df \in DockerfileStates(SourceFooBar) : fs = Files(some \cup df)
    /\ changed_files = <<>>
    /\ Idle

SpecLanguage == InitLanguage /\ [][Next]_vars

(* Change detection: up to MaxDiffLines changed paths, with connector      *)
(* source-foo missing on disk, without metadata, or with a metadata file   *)
(* that lacks the data key, lacks dockerImageTag, or is complete.          *)
DiffPaths ==
    {<<"a","i","r","b","y","t","e","-","i","n","t","e","g","r","a","t","i","o","n","s","/","c","o","n","n","e","c","t","o","r","s","/","s","o","u","r","c","e","-","f","o","o","/","a","c","c","e","p","t","a","n","c","e","-","t","e","s","t","-","c","o","n","f","i","g",".","y","m","l">>,
     <<"a","i","r","b","y","t","e","-","i","n","t","e","g","r","a","t","i","o","n","s","/","c","o","n","n","e","c","t","o","r","s","/","d","e","s","t","i","n","a","t","i","o","n","-","b","a","r","/","a","c","c","e","p","t","a","n","c","e","-","t","e","s","t","-","c","o","n","f","i","g",".","y","m","l">>,
     <<"a","i","r","b","y","t","e","-","i","n","t","e","g","r","a","t","i","o","n","s","/","c","o","n","n","e","c","t","o","r","s","/","s","o","u","r","c","e","-","f","o","o","/","s","e","t","u","p",".","p","y">>,
     <<"a","i","r","b","y","t","e","-","i","n","t","e","g","r","a","t","i","o","n","s","/","c","o","n","n","e","c","t","o","r","s","/","s","o","u","r","c","e","-","f","o","o","/","t","e","s","t","s","/","a","c","c","e","p","t","a","n","c","e","-","t","e","s","t","-","c","o","n","f","i","g",".","y","m","l">>,
     <<"a","i","r","b","y","t","e","-","i","n","t","e","g","r","a","t","i","o","n","s","/","c","o","n","n","e","c","t","o","r","s","/","s","o","u","r","c","e","-","b","a","z","/","a","c","c","e","p","t","a","n","c","e","-","t","e","s","t","-","c","o","n","f","i","g",".","y","m","l">>,
     <<"a","i","r","b","y","t","e","-","i","n","t","e","g","r","a","t","i","o","n","s","/","c","o","n","n","e","c","t","o","r","s","/","s","o","u","r","c","e","-","a","c","c","e","p","t","a","n","c","e","-","t","e","s","t","-","c","o","n","f","i","g",".","y","m","l">>,
     <<"R","E","A","D","M","E",".","m","d">>}
DetectionDisks ==
    {{}, {<<<<"a","i","r","b","y","t","e","-","i","n","t","e","g","r","a","t","i","o","n","s","/","c","o","n","n","e","c","t","o","r","s","/","s","o","u","r","c","e","-","f","o","o","/","s","e","t","u","p",".","p","y">>, TextFile(<<>>)>>}}
    \cup (MetadataStates(SourceFoo,
            {NoDataDoc, DataDoc(PyDict(EmptyMap)),
             DataDoc(PyDict([dockerImageTag |-> PyStr(<<"0",".","9",".","0">>)]))}) \ {{}})

InitDetection ==
    /\ connector = Connector(SourceFoo)
    /\ \E disk \in DetectionDisks : fs = Files(disk)
    /\ changed_files \in Strings(DiffPaths, MaxDiffLines)
    /\ Idle

SpecDetection == InitDetection /\ [][Next]_vars

(* Released connectors: every subset of a set of files under and beside    *)
(* the connectors root.                                                    *)
ValidDoc == DataDoc(PyDict([dockerImageTag |-> PyStr(<<"0",".","9",".","0">>)]))
TreeFiles ==
    {<<p, YamlFile(ValidDoc)>> : p \in
        {<<"a","i","r","b","y","t","e","-","i","n","t","e","g","r","a","t","i","o","n","s","/","c","o","n","n","e","c","t","o","r","s","/","s","o","u","r","c","e","-","a","/","m","e","t","a","d","a","t","a",".","y","a","m","l">>,
         <<"a","i","r","b","y","t","e","-","i","n","t","e","g","r","a","t","i","o","n","s","/","c","o","n","n","e","c","t","o","r","s","/","s","o","u","r","c","e","-","b","-","s","c","a","f","f","o","l","d","-","t","e","s","t","/","m","e","t","a","d","a","t","a",".","y","a","m","l">>,
         <<"a","i","r","b","y","t","e","-","i","n","t","e","g","r","a","t","i","o","n","s","/","c","o","n","n","e","c","t","o","r","s","/","d","e","s","t","i","n","a","t","i","o","n","-","c","/","m","e","t","a","d","a","t","a",".","y","a","m","l">>,
         <<"a","i","r","b","y","t","e","-","i","n","t","e","g","r","a","t","i","o","n","s","/","c","o","n","n","e","c","t","o","r","s","/","s","o","u","r","c","e","-","a","/","u","n","i","t","_","t","e","s","t","s","/","m","e","t","a","d","a","t","a",".","y","a","m","l">>,
         <<"a","i","r","b","y","t","e","-","i","n","t","e","g","r","a","t","i","o","n","s","/","c","o","n","n","e","c","t","o","r","s","/","s","o","u","r","c","e","-","s","c","a","f","f","o","l","d","/","m","e","t","a","d","a","t","a",".","y","a","m","l">>,
         <<"a","i","r","b","y","t","e","-","i","n","t","e","g","r","a","t","i","o","n","s","/","c","o","n","n","e","c","t","o","r","s","/","s","o","u","r","c","e","-","a","/",".","v","e","n","v","/","m","e","t","a","d","a","t","a",".","y","a","m","l">>,
         <<"a","i","r","b","y","t","e","-","i","n","t","e","g","r","a","t","i","o","n","s","/","c","o","n","n","e","c","t","o","r","-","t","e","m","p","l","a","t","e","s","/","s","o","u","r","c","e","-","x","/","m","e","t","a","d","a","t","a",".","y","a","m","l">>,
         <<"a","i","r","b","y","t","e","-","i","n","t","e","g","r","a","t","i","o","n","s","/","c","o","n","n","e","c","t","o","r","s","/","s","o","u","r","c","e","-","a","/","a","c","c","e","p","t","a","n","c","e","-","t","e","s","t","-","c","o","n","f","i","g",".","y","m","l">>}}

InitReleased ==
    /\ connector = Connector(<<"s","o","u","r","c","e","-","a">>)
    /\ \E some \in SUBSET TreeFiles : fs = Files(some)
    /\ changed_files = <<>>
    /\ Idle

SpecReleased == InitReleased /\ [][Next]_vars

----------------------------------------------------------------------------
(* What is on disk, read directly from fs with literal paths *)

HasHyphen(s) == \E i \in 1..Len(s) : s[i] = "-"

MetadataPath == PathOf(ConnectorsRoot \o connector.technical_name \o <<"/","m","e","t","a","d","a","t","a",".","y","a","m","l">>)
DockerfilePath == PathOf(ConnectorsRoot \o connector.technical_name \o <<"/","D","o","c","k","e","r","f","i","l","e">>)

MetadataAbsent == MetadataPath \notin DOMAIN fs
\* metadata.yaml exists and its data is a mapping
HasData ==
    /\ MetadataPath \in DOMAIN fs
    /\ "data" \in DOMAIN fs[MetadataPath].doc.v
    /\ fs[MetadataPath].doc.v["data"].t = "dict"
Data == fs[MetadataPath].doc.v["data"].v

DockerfileAbsent == DockerfilePath \notin DOMAIN fs
DockerfileText == fs[DockerfilePath].text
VersionMarker == <<"i","o",".","a","i","r","b","y","t","e",".","v","e","r","s","i","o","n">>

----------------------------------------------------------------------------
(* C1: version raises ConnectorVersionNotFound, and nothing else, whenever *)
(* no version can be obtained: (a) the metadata mapping lacks              *)
(* dockerImageTag; (b) metadata is absent and there is no Dockerfile;      *)
(* (c) metadata is absent and no line of the Dockerfile carries the        *)
(* io.airbyte.version marker.                                              *)
NoVersionAvailable ==
    \/ HasData /\ "dockerImageTag" \notin DOMAIN Data
    \/ MetadataAbsent /\ DockerfileAbsent
    \/ MetadataAbsent /\ ~DockerfileAbsent /\ ~contains(DockerfileText, VersionMarker)

C1_VersionNotFoundInEveryCase ==
    (op = "version" /\ NoVersionAvailable)
        => result = Raise("ConnectorVersionNotFound")

----------------------------------------------------------------------------
(* C2: for a technical name without '-', connector_type, name,             *)
(* documentation_file_path and icon_path all raise                         *)
(* ConnectorInvalidNameError, whatever the metadata on disk.               *)
C2_IdentityErrorOnEveryAccess ==
    (/\ ~HasHyphen(connector.technical_name)
     /\ op \in {"connector_type", "name", "documentation_file_path", "icon_path"})
        => result = Raise("ConnectorInvalidNameError")

(* C2 as amended: connector_type, name and documentation_file_path raise   *)
(* ConnectorInvalidNameError whatever the metadata; icon_path raises it    *)
(* when metadata is absent or null or is a mapping without a non-empty     *)
(* icon, returns the icon's path when the mapping has a non-empty icon,    *)
(* and raises KeyError when metadata.yaml lacks the data key.              *)
IconRoot == <<"a","i","r","b","y","t","e","-","c","o","n","f","i","g","-","o","s","s","/","i","n","i","t","-","o","s","s","/","s","r","c","/","m","a","i","n","/","r","e","s","o","u","r","c","e","s","/","i","c","o","n","s","/">>

C2_IdentityErrorWhereNameIsNeeded ==
    ~HasHyphen(connector.technical_name) =>
        /\ op \in {"connector_type", "name", "documentation_file_path"}
              => result = Raise("ConnectorInvalidNameError")
        /\ op = "icon_path" =>
              IF HasData /\ "icon" \in DOMAIN Data /\ Len(Data["icon"].v) > 0
              THEN result = Return(PyPath(IconRoot \o Data["icon"].v))
              ELSE IF ~MetadataAbsent /\ "data" \notin DOMAIN fs[MetadataPath].doc.v
              THEN result = Raise("KeyError")
              ELSE result = Raise("ConnectorInvalidNameError")

C2_Witness ==
    /\ op = "icon_path"
    /\ connector = Connector(<<"s","o","u","r","c","e","f","o","o">>)
    /\ HasData /\ "icon" \notin DOMAIN Data
    /\ result = Raise("ConnectorInvalidNameError")

----------------------------------------------------------------------------
(* C3: for a technical name with at least one '-', the type is the text    *)
(* before the first '-' and the name is everything after it, so that       *)
(* type + '-' + name is the technical name.                                *)
FirstHyphen(s) == Min({i \in 1..Len(s) : s[i] = "-"})
TextBeforeFirstHyphen(s) == SubSeq(s, 1, FirstHyphen(s) - 1)
TextAfterFirstHyphen(s) == SubSeq(s, FirstHyphen(s) + 1, Len(s))

C3_LeftBiasedSplit ==
    HasHyphen(connector.technical_name) =>
        /\ op = "_get_type_and_name_from_technical_name" =>
              /\ result.kind = "return"
              /\ result.value.t = "tuple"
              /\ ~HasHyphen(result.value.v[1].v)
              /\ result.value.v[1].v \o <<"-">> \o result.value.v[2].v
                    = connector.technical_name
        /\ op = "connector_type" =>
              result = Return(PyStr(TextBeforeFirstHyphen(connector.technical_name)))
        /\ op = "name" =>
              result = Return(PyStr(TextAfterFirstHyphen(connector.technical_name)))

C3_Witness ==
    /\ op = "_get_type_and_name_from_technical_name"
    /\ connector = Connector(<<"d","e","s","t","i","n","a","t","i","o","n","-","b","i","g","q","u","e","r","y","-","d","e","n","o","r","m","a","l","i","z","e","d">>)
    /\ result = Return(PyTuple(<<PyStr(<<"d","e","s","t","i","n","a","t","i","o","n">>), PyStr(<<"b","i","g","q","u","e","r","y","-","d","e","n","o","r","m","a","l","i","z","e","d">>)>>))

----------------------------------------------------------------------------
(* C4: supports_normalization, normalization_repository, normalization_tag,*)
(* release_stage, allowed_hosts and suggested_streams never raise for      *)
(* missing optional data: with metadata.yaml absent, or with a metadata    *)
(* mapping that lacks the key read (a normalizationConfig without          *)
(* normalizationRepository or normalizationTag included), each returns     *)
(* None, supports_normalization a false value.                             *)
ConfigLacks(key) ==
    \/ "normalizationConfig" \notin DOMAIN Data
    \/ /\ Data["normalizationConfig"].t = "dict"
       /\ key \notin DOMAIN Data["normalizationConfig"].v

OptionalDataMissing ==
    \/ MetadataAbsent
    \/ /\ HasData
       /\ \/ op = "release_stage" /\ "releaseStage" \notin DOMAIN Data
          \/ op = "allowed_hosts" /\ "allowedHosts" \notin DOMAIN Data
          \/ op = "suggested_streams" /\ "suggestedStreams" \notin DOMAIN Data
          \/ op = "supports_normalization" /\ "normalizationConfig" \notin DOMAIN Data
          \/ op = "normalization_repository" /\ ConfigLacks("normalizationRepository")
          \/ op = "normalization_tag" /\ ConfigLacks("normalizationTag")

C4_MissingOptionalNeverRaises ==
    (/\ op \in {"supports_normalization", "normalization_repository", "normalization_tag",
                "release_stage", "allowed_hosts", "suggested_streams"}
     /\ OptionalDataMissing)
        => IF op = "supports_normalization"
           THEN result.kind = "return" /\ ~Truthy(result.value)
           ELSE result = Return(PyNone)

----------------------------------------------------------------------------
(* C5: language is decided by the first match of: manifest.yaml in the     *)
(* package directory (low-code), setup.py (python), a Dockerfile that      *)
(* references the Java base image (java); with no match the result is the  *)
(* member 'unknown' of the enumeration, and nothing is raised.             *)
ManifestPresent == ManifestFile[1] \in DOMAIN fs
SetupPyPresent == SetupPyFile[1] \in DOMAIN fs
JavaDockerfile ==
    ~DockerfileAbsent /\ contains(DockerfileText, <<"F","R","O","M"," ","a","i","r","b","y","t","e","/","i","n","t","e","g","r","a","t","i","o","n","-","b","a","s","e","-","j","a","v","a">>)

LanguageByPrecedence(noMatch) ==
    IF ManifestPresent THEN [t |-> "ConnectorLanguage", v |-> "low-code"]
    ELSE IF SetupPyPresent THEN [t |-> "ConnectorLanguage", v |-> "python"]
    ELSE IF JavaDockerfile THEN [t |-> "ConnectorLanguage", v |-> "java"]
    ELSE noMatch

----------------------------------------------------------------------------
(* C6: get_changed_acceptance_test_config returns exactly the Connectors   *)
(* named by the third component of the changed paths that start with       *)
(* airbyte-integrations/connectors/source- and end with                    *)
(* acceptance-test-config.yml; other paths contribute nothing and raise    *)
(* nothing, and several paths of one connector give one Connector.         *)
SourcePrefix == <<"a","i","r","b","y","t","e","-","i","n","t","e","g","r","a","t","i","o","n","s","/","c","o","n","n","e","c","t","o","r","s","/","s","o","u","r","c","e","-">>
AcceptanceConfig == <<"a","c","c","e","p","t","a","n","c","e","-","t","e","s","t","-","c","o","n","f","i","g",".","y","m","l">>

\* The text of p between the connectors root and the next '/'
ThirdComponent(p) ==
    LET rest == SubSeq(p, Len(ConnectorsRoot) + 1, Len(p))
        stops == {i \in 1..Len(rest) : rest[i] = "/"}
    IN IF stops = {} THEN rest ELSE SubSeq(rest, 1, Min(stops) - 1)

ChangedPaths == {changed_files[i] : i \in 1..Len(changed_files)}

C6_ExactlyChangedSourceAcceptanceConfigs ==
    op = "get_changed_acceptance_test_config" =>
        result = Return(PySet({Connector(ThirdComponent(p)) : p \in
                    {q \in ChangedPaths : /\ startswith(q, SourcePrefix)
                                          /\ endswith(q, AcceptanceConfig)}}))

C6_Witness ==
    /\ op = "get_changed_acceptance_test_config"
    /\ changed_files =
          <<<<"a","i","r","b","y","t","e","-","i","n","t","e","g","r","a","t","i","o","n","s","/","c","o","n","n","e","c","t","o","r","s","/","s","o","u","r","c","e","-","f","o","o","/","a","c","c","e","p","t","a","n","c","e","-","t","e","s","t","-","c","o","n","f","i","g",".","y","m","l">>,
            <<"a","i","r","b","y","t","e","-","i","n","t","e","g","r","a","t","i","o","n","s","/","c","o","n","n","e","c","t","o","r","s","/","d","e","s","t","i","n","a","t","i","o","n","-","b","a","r","/","a","c","c","e","p","t","a","n","c","e","-","t","e","s","t","-","c","o","n","f","i","g",".","y","m","l">>>>
    /\ result = Return(PySet({Connector(<<"s","o","u","r","c","e","-","f","o","o">>)}))

----------------------------------------------------------------------------
(* C7: get_all_released_connectors returns exactly one Connector per       *)
(* parent directory of a metadata.yaml found under the connectors root     *)
(* whose path does not contain -scaffold-, named after that directory.     *)
\* glob finds p: under the root, named metadata.yaml, in no hidden directory
FoundByGlob(p) ==
    /\ startswith(p, ConnectorsRoot)
    /\ endswith(p, <<"/","m","e","t","a","d","a","t","a",".","y","a","m","l">>)
    /\ ~contains(p, <<"/",".">>)

\* The name of the directory that holds p
DirectoryOf(p) ==
    LET dir == SubSeq(p, 1, Len(p) - Len(<<"/","m","e","t","a","d","a","t","a",".","y","a","m","l">>))
        slashes == {i \in 1..Len(dir) : dir[i] = "/"}
    IN SubSeq(dir, Max(slashes) + 1, Len(dir))

C7_ReleasedExcludesScaffolds ==
    op = "get_all_released_connectors" =>
        result = Return(PySet({Connector(DirectoryOf(p)) : p \in
                    {q \in DOMAIN fs : FoundByGlob(q) /\ ~contains(q, <<"-","s","c","a","f","f","o","l","d","-">>)}}))

C7_Witness ==
    /\ op = "get_all_released_connectors"
    /\ DOMAIN fs =
          {<<"a","i","r","b","y","t","e","-","i","n","t","e","g","r","a","t","i","o","n","s","/","c","o","n","n","e","c","t","o","r","s","/","s","o","u","r","c","e","-","a","/","m","e","t","a","d","a","t","a",".","y","a","m","l">>,
           <<"a","i","r","b","y","t","e","-","i","n","t","e","g","r","a","t","i","o","n","s","/","c","o","n","n","e","c","t","o","r","s","/","s","o","u","r","c","e","-","b","-","s","c","a","f","f","o","l","d","-","t","e","s","t","/","m","e","t","a","d","a","t","a",".","y","a","m","l">>,
           <<"a","i","r","b","y","t","e","-","i","n","t","e","g","r","a","t","i","o","n","s","/","c","o","n","n","e","c","t","o","r","s","/","d","e","s","t","i","n","a","t","i","o","n","-","c","/","m","e","t","a","d","a","t","a",".","y","a","m","l">>}
    /\ result = Return(PySet({Connector(<<"s","o","u","r","c","e","-","a">>), Connector(<<"d","e","s","t","i","n","a","t","i","o","n","-","c">>)}))

----------------------------------------------------------------------------
(* C8: with a metadata mapping that has dockerImageTag, version returns    *)
(* exactly that tag, whatever the Dockerfile holds.                        *)
C8_MetadataTagWins ==
    (op = "version" /\ HasData /\ "dockerImageTag" \in DOMAIN Data)
        => result = Return(Data["dockerImageTag"])

C8_Witness ==
    /\ op = "version"
    /\ HasData /\ "dockerImageTag" \in DOMAIN Data
    /\ ~DockerfileAbsent /\ contains(DockerfileText, <<"i","o",".","a","i","r","b","y","t","e",".","v","e","r","s","i","o","n","=","1",".","2",".","3">>)
    /\ result = Return(PyStr(<<"0",".","9",".","0">>))

----------------------------------------------------------------------------
(* C9: with metadata absent, version returns, for the first line of the    *)
(* Dockerfile that carries io.airbyte.version=<value>, everything after    *)
(* that '=' up to the end of the line, trimmed (a value containing '=' is  *)
(* returned whole, later marker lines are ignored).                        *)
\* The line a position of the text lies on runs to the next line terminator
EndOfLine(text, i) == Min({k \in i..(Len(text) + 1) : k = Len(text) + 1 \/ text[k] = "\n"})
FirstMarker(text) ==
    Min({i \in 1..Len(text) :
            i + Len(VersionMarker) - 1 <= Len(text)
            /\ SubSeq(text, i, i + Len(VersionMarker) - 1) = VersionMarker})
\* The first marker is written io.airbyte.version=<value>
FirstMarkerHasValue(text) ==
    LET eq == FirstMarker(text) + Len(VersionMarker)
    IN eq <= Len(text) /\ text[eq] = "="
ValueAfterMarker(text) ==
    LET eq == FirstMarker(text) + Len(VersionMarker)
    IN strip(SubSeq(text, eq + 1, EndOfLine(text, eq) - 1))

C9_WholeValueAfterEquals ==
    (/\ op = "version"
     /\ MetadataAbsent
     /\ ~DockerfileAbsent
     /\ contains(DockerfileText, VersionMarker)
     /\ FirstMarkerHasValue(DockerfileText))
        => result = Return(PyStr(ValueAfterMarker(DockerfileText)))

----------------------------------------------------------------------------
(* C10: whatever is on disk for the connectors involved,                   *)
(* get_changed_connectors and get_changed_acceptance_test_config return    *)
(* without error a set that is a function of the changed paths alone; the  *)
(* third component of a path that starts with the source connector prefix  *)
(* can always be taken, and every Connector returned has a technical name  *)
(* that begins with source-.                                               *)
C10_DetectionIgnoresDisk ==
    /\ op \in {"get_changed_connectors", "get_changed_acceptance_test_config"} =>
          /\ result.kind = "return"
          /\ \A c \in result.value.v : startswith(c.technical_name, <<"s","o","u","r","c","e","-">>)
    /\ op = "get_changed_connectors" =>
          result = Return(PySet({Connector(ThirdComponent(p)) : p \in
                      {q \in ChangedPaths : startswith(q, SourcePrefix)}}))
    /\ \A p \in ChangedPaths :
          startswith(p, SourcePrefix) => get_connector_name_from_path(p).kind = "return"

C10_Witness ==
    /\ op = "get_changed_connectors"
    /\ ~MetadataAbsent /\ "data" \notin DOMAIN fs[MetadataPath].doc.v
    /\ <<"a","i","r","b","y","t","e","-","i","n","t","e","g","r","a","t","i","o","n","s","/","c","o","n","n","e","c","t","o","r","s","/","s","o","u","r","c","e","-","f","o","o","/","s","e","t","u","p",".","p","y">> \in ChangedPaths
    /\ result.kind = "return"
    /\ Connector(<<"s","o","u","r","c","e","-","f","o","o">>) \in result.value.v

====
